---- MODULE Spec2Model ----
(***************************************************************************)
(* proclynx: the interactive session engine of src/main.rs.                *)
(*                                                                         *)
(* The state is the App aggregate (input, input_mode, messages, output)    *)
(* together with the locals of run_app that live across loop iterations    *)
(* (flag, num, arg, parts, history).  Every key event read by the loop is  *)
(* one action.  Text is modelled as a sequence of one-character strings,   *)
(* a display line as a record of the format string used and the values     *)
(* substituted into it.  The operating system behind sysinfo / psutil /    *)
(* nix is the environment: what it answers during a dispatch is chosen     *)
(* nondeterministically and recorded in nprocs and facade_ok.              *)
(*                                                                         *)
(* Not modelled: rendering (ui), and an I/O error of terminal.draw or      *)
(* event::read (lines 88-89), which ends run_app whatever the state.       *)
(* Typed text is ASCII, so parts[1][1..] always falls on a char boundary.  *)
(***************************************************************************)
EXTENDS Integers, Sequences, FiniteSets, TLC

VARIABLES
    input,       \* app.input                                   (main.rs:34)
    input_mode,  \* app.input_mode: "Normal" | "Editing"        (main.rs:36)
    messages,    \* app.messages                                (main.rs:37)
    output,      \* app.output                                  (main.rs:38)
    flag,        \* run_app local: paging enabled               (main.rs:81)
    num,         \* run_app local: rows of the last ptable, i32 (main.rs:82)
    arg,         \* run_app local: unit / mode selector         (main.rs:84)
    parts,       \* run_app local: tokens of the last line      (main.rs:85)
    history,     \* run_app local: lines paged out of output    (main.rs:86)
    session,     \* "running" | "quit" (return Ok, :96) | "io_error" (?, :181)
                 \* | "panic" (unwrap / index out of range)
    nprocs,      \* environment: size of the OS process table last observed
    facade_ok,   \* environment: did the OS calls of the last dispatch succeed
    signals,     \* environment: pids that were sent SIGTERM
    spawned,     \* environment: programs that were started by ignite
    typed,       \* observer: character keys since input was last empty by
                 \*           construction (start of session or Enter)
    erased,      \* observer: Backspace keys over the same period
    voided,      \* observer: those Backspace keys that found input empty
    before_down, \* observer: <<output, history>> as they were before the key
                 \*           just handled, when that key was a Down that moved
                 \*           a line; <<>> after any other key
    solo         \* observer: for every line, OS outcome and table size, the
                 \*           output of that line's dispatch in a session that
                 \*           has submitted nothing before

vars == <<input, input_mode, messages, output, flag, num, arg, parts, history,
          session, nprocs, facade_ok, signals, spawned, typed, erased, voided,
          before_down, solo>>

-----------------------------------------------------------------------------
(* Bounds of the model *)

\* Enter is pressed at most this many times in a session.
MaxMessages == 2

\* At most this many Backspace keys per composed line.
MaxErase == 2

\* The largest process table has this many rows more than ScrollMargin + 1.
MaxExtraRows == 5

-----------------------------------------------------------------------------
(* Program constants *)

\* `history.len() <= (num-45)'
ScrollMargin == 45

\* i32
I32Max == 2147483647

I32Min == (0 - 2147483647) - 1

-----------------------------------------------------------------------------
(* Text *)

Last(s) == s[Len(s)]

Front(s) == SubSeq(s, 1, Len(s) - 1)

IsPrefix(p, s) == Len(p) <= Len(s) /\ SubSeq(s, 1, Len(p)) = p

\* char::is_whitespace, over the characters the model types
is_whitespace(c) == c = " "

\* str::split_whitespace: the maximal runs of non-whitespace characters
RECURSIVE split_from(_, _, _)
split_from(s, cur, acc) ==
    IF s = <<>>
    THEN IF cur = <<>> THEN acc ELSE Append(acc, cur)
    ELSE IF is_whitespace(Head(s))
         THEN split_from(Tail(s), <<>>, IF cur = <<>> THEN acc ELSE Append(acc, cur))
         ELSE split_from(Tail(s), Append(cur, Head(s)), acc)

split_whitespace(s) == split_from(s, <<>>, <<>>)

Digits == {"0", "1", "2", "3", "4", "5", "6", "7", "8", "9"}

DigitVal(c) ==
    CASE c = "0" -> 0 [] c = "1" -> 1 [] c = "2" -> 2 [] c = "3" -> 3
      [] c = "4" -> 4 [] c = "5" -> 5 [] c = "6" -> 6 [] c = "7" -> 7
      [] c = "8" -> 8 [] c = "9" -> 9

\* The digit loop of i32::from_str: the running value is multiplied by ten and
\* the digit added (subtracted for a negative number), each step checked.
RECURSIVE accumulate(_, _, _)
accumulate(s, acc, neg) ==
    IF s = <<>> THEN [ok |-> TRUE, val |-> acc]
    ELSE LET d == DigitVal(Head(s))
         IN  IF neg
             THEN IF acc < (I32Min \div 10) + 1 \/ 10 * acc < I32Min + d
                  THEN [ok |-> FALSE, val |-> 0]
                  ELSE accumulate(Tail(s), 10 * acc - d, neg)
             ELSE IF acc > I32Max \div 10 \/ 10 * acc > I32Max - d
                  THEN [ok |-> FALSE, val |-> 0]
                  ELSE accumulate(Tail(s), 10 * acc + d, neg)

\* str::parse::<i32>: an optional sign, then one or more decimal digits, and
\* the value must fit an i32.  [ok |-> FALSE] is Err.
parse_i32(tok) ==
    LET signed == tok # <<>> /\ Head(tok) \in {"+", "-"}
        body   == IF signed THEN Tail(tok) ELSE tok
        wellformed == body # <<>> /\ \A i \in 1..Len(body) : body[i] \in Digits
    IN  IF wellformed
        THEN accumulate(body, 0, signed /\ Head(tok) = "-")
        ELSE [ok |-> FALSE, val |-> 0]

\* the whole token taken as the selector, nothing skipped
skip_first_keeps(tok) == tok

\* &s[1..] of an ASCII string: everything after the first character
skip_first(tok) == Tail(tok)

-----------------------------------------------------------------------------
(* Display lines *)

\* format!(fmt, vals...): the format string, named, and the values put in it
Line(fmt, vals) == [fmt |-> fmt, vals |-> vals]

\* "{:<30} {:<30} {:<30} {:<30}" of "PID", "%CPU", "%MEM", "COMMAND"
TableHeader == Line("PID %CPU %MEM COMMAND", <<>>)

NotFoundLine == Line("command not found", <<>>)

H(topic) == Line(topic, <<>>)

\* the help text with each command listed once
HelpText_listed_once ==
    << H("COMMANDS ."),
       H("find (pid) --> retrievs the info of process with (pid)"),
       H("ignite --> start new process"),
       H("ptable --> prints proces table"),
       H("desc --> sort process table descendingly"),
       H("sysinfo --> retrieves system info"),
       H("kill (pid/name)--> kill process with (pid/name)"),
       H("uname --> prints the kernel version"),
       H("release --> prints the OS version"),
       H("hostname --> prints the hostname"),
       H("sensors --> prints the labels of various components with their associated temperatures"),
       H("df --> prints the disk filesystem information"),
       H("hddtemp --> prints the temperature of the internal HDD/SSD"),
       H("lscpu --> lists the processor information"),
       H("gputemp --> prints the temperature of the GPU"),
       H("network --> prints information pertaining to network utilization"),
       H("memory --> prints information pertaining to memory utilization") >>

\* the lines pushed by the "help" arm, in order
HelpText ==
    << H("COMMANDS ."),
       H("find (pid) --> retrievs the info of process with (pid)"),
       H("ignite --> start new process"),
       H("ptable --> prints proces table"),
       H("desc --> sort process table descendingly"),
       H("sysinfo --> retrieves system info"),
       H("kill (pid/name)--> kill process with (pid/name)"),
       H("uname --> prints the kernel version"),
       H("uname --> prints the kernel version"),
       H("release --> prints the OS version"),
       H("release --> prints the OS version"),
       H("hostname --> prints the hostname"),
       H("sensors --> prints the labels of various components with their associated temperatures"),
       H("df --> prints the disk filesystem information"),
       H("hddtemp --> prints the temperature of the internal HDD/SSD"),
       H("lscpu --> lists the processor information"),
       H("gputemp --> prints the temperature of the GPU"),
       H("network --> prints information pertaining to network utilization"),
       H("memory --> prints information pertaining to memory utilization") >>

-----------------------------------------------------------------------------
(* The operating system, as the handlers see it *)

\* `Ok(None)' of p.cmdline(): a kernel thread.  Pid 2 is one in every table.
has_cmdline(p) == p # 2

\* psutil::process::processes() over a table of n processes: pid order
processes(n) == [i \in 1..n |-> i]

\* p.name()
ProcName(p) == IF p = 1 THEN <<"i">> ELSE <<"s">>

\* Vec::reverse
RECURSIVE reverse(_)
reverse(s) == IF s = <<>> THEN <<>> ELSE Append(reverse(Tail(s)), Head(s))

\* sys.disks(): total_space() and available_space() in bytes
Disks == << [total |-> 3 * (2^20) + 5 * (2^10) + 7, avail |-> 2^20 + 3 * (2^10) + 1] >>

\* sys.components(): label, temperature(), max(), critical()
Components ==
    << [label |-> "SSD", temperature |-> 40, max |-> 55, critical |-> 70],
       [label |-> "gpu", temperature |-> 50, max |-> 65, critical |-> 90],
       [label |-> "cpu", temperature |-> 45, max |-> 60, critical |-> 95] >>

\* str::contains for the labels above and the needles the handlers look for
contains(label, needle) == label = needle

\* sys.cpus()
Cpus == << [frequency |-> 2400] >>

\* system.networks(): packets transmitted and received per interface
Networks == << [tx |-> 10, rx |-> 20] >>

\* The unit and mode selectors the handlers match on
Empty == <<>>

K_ == <<"k">>

M_ == <<"m">>

Max_ == <<"m", "a", "x">>

Crit_ == <<"c", "r", "i", "t">>

\* The size of the process table is one of these whenever the OS is asked:
\* none, a few, exactly enough rows to page once, and more than that.
ProcCounts == {0, 3, ScrollMargin + 1, ScrollMargin + 1 + MaxExtraRows}

-----------------------------------------------------------------------------
(* Handlers.  Each returns the lines it produces; a handler that can panic  *)
(* returns [panic |-> TRUE] with the lines pushed until then.               *)

get_system_information(ok) ==
    IF ok
    THEN [panic |-> FALSE,
          lines |-> << Line("Name: {}", <<>>), Line("Kernel version: {}", <<>>),
                       Line("OS version: {}", <<>>), Line("Host name: {}", <<>>) >>]
    ELSE [panic |-> TRUE, lines |-> <<>>]

get_components_information ==
    [i \in 1..Len(Components) |-> Line("{:?}", <<i>>)]

is_hdd(c) == contains(c.label, "SSD") \/ contains(c.label, "HDD")

is_gpu(c) == contains(c.label, "gpu")

\* indices of the components a predicate selects, in order
RECURSIVE select_from(_, _, _)
select_from(i, hdd, acc) ==
    IF i > Len(Components) THEN acc
    ELSE select_from(i + 1, hdd,
                     IF (hdd /\ is_hdd(Components[i])) \/ (~hdd /\ is_gpu(Components[i]))
                     THEN Append(acc, i) ELSE acc)

get_hddtemp(a, ok) ==
    LET sel == select_from(1, TRUE, <<>>)
    IN  CASE a = Empty ->
               [panic |-> FALSE,
                lines |-> [j \in 1..Len(sel) |->
                             Line("{}: {:?}C", <<sel[j], Components[sel[j]].temperature>>)]]
          [] a = Max_ ->
               [panic |-> FALSE,
                lines |-> [j \in 1..Len(sel) |->
                             Line("{}: {:?}C", <<sel[j], Components[sel[j]].max>>)]]
          [] a = Crit_ ->
               IF ok \/ sel = <<>>
               THEN [panic |-> FALSE,
                     lines |-> [j \in 1..Len(sel) |->
                                  Line("{}: {:?}C", <<sel[j], Components[sel[j]].critical>>)]]
               ELSE [panic |-> TRUE, lines |-> <<>>]
          [] OTHER -> [panic |-> FALSE, lines |-> <<>>]

disk_power(a) ==
    CASE a = Empty -> 0
      [] a = K_ -> 10
      [] a = M_ -> 20
      [] OTHER -> 0

DiskHeader == Line("Name MountPoint Filesystem Total Available Used", <<>>)

disk_line(d, power) ==
    Line("{:<50} x6", << d.total \div (2^power), d.avail \div (2^power),
                        (d.total \div (2^power)) - (d.avail \div (2^power)) >>)

get_disks_information(a) ==
    <<DiskHeader>> \o [i \in 1..Len(Disks) |-> disk_line(Disks[i], disk_power(a))]

get_cpu_information ==
    <<Line("Brand VendorID Name Frequency", <<>>)>>
        \o [i \in 1..Len(Cpus) |-> Line("{:<50} x4", <<Cpus[i].frequency>>)]

get_gputemp(a) ==
    LET sel == select_from(1, FALSE, <<>>)
    IN  CASE a = Empty ->
               [j \in 1..Len(sel) |-> Line("{}: {}C", <<sel[j], Components[sel[j]].temperature>>)]
          [] a = Max_ ->
               [j \in 1..Len(sel) |-> Line("{}: {}C", <<sel[j], Components[sel[j]].max>>)]
          [] OTHER -> <<>>

\* one data row of the process table: pid, cpu%, mem%, name
ProcRow(p) == Line("{:<30} {:<30} {:<30} {:<30}", <<p>>)

\* the loop of printptable over the enumeration
RECURSIVE ptable_loop(_, _, _)
ptable_loop(procs, out, n) ==
    IF procs = <<>> THEN [panic |-> FALSE, lines |-> out, num |-> n]
    ELSE IF has_cmdline(Head(procs))
         THEN ptable_loop(Tail(procs), Append(out, ProcRow(Head(procs))), n + 1)
         ELSE ptable_loop(Tail(procs), out, n)

\* printptable with num incremented for every process enumerated, not only for
\* those that get a row
printptable_counts_all(out, n, ok) ==
    IF ~ok THEN [panic |-> TRUE, lines |-> out, num |-> 0]
    ELSE [ptable_loop(processes(n), Append(out, TableHeader), 0) EXCEPT !.num = n]

\* printptable pushes onto app.output (out) and returns num
printptable(out, n, ok) ==
    IF ~ok THEN [panic |-> TRUE, lines |-> out, num |-> 0]
    ELSE ptable_loop(processes(n), Append(out, TableHeader), 0)

\* kill(Pid::from_raw(pid), SIGTERM): fails for a pid that is not in the table
\* (ESRCH) and when the OS refuses (EPERM)
kill_succeeds(pid, n, ok) == ok /\ pid >= 1 /\ pid <= n

KilledLine == Line("Process with killed successfully.", <<>>)

KillErrorLine == Line("Error killing process: {}", <<>>)

\* kill_by_pid with the result of kill unwrapped instead of matched
kill_by_pid_unwraps(out, pid, n, ok) ==
    IF kill_succeeds(pid, n, ok)
    THEN [panic |-> FALSE, lines |-> Append(out, KilledLine), killed |-> {pid}]
    ELSE [panic |-> TRUE, lines |-> out, killed |-> {}]

kill_by_pid(out, pid, n, ok) ==
    IF kill_succeeds(pid, n, ok)
    THEN [panic |-> FALSE, lines |-> Append(out, KilledLine), killed |-> {pid}]
    ELSE [panic |-> FALSE, lines |-> Append(out, KillErrorLine), killed |-> {}]

RECURSIVE kill_loop(_, _, _, _)
kill_loop(procs, name, out, killed) ==
    IF procs = <<>> THEN [panic |-> FALSE, lines |-> out, killed |-> killed]
    ELSE IF has_cmdline(Head(procs)) /\ name = ProcName(Head(procs))
         THEN kill_loop(Tail(procs), name, Append(out, KilledLine), killed \cup {Head(procs)})
         ELSE kill_loop(Tail(procs), name, out, killed)

kill_by_name(out, name, n, ok) ==
    IF ~ok THEN [panic |-> TRUE, lines |-> out, killed |-> {}]
    ELSE kill_loop(processes(n), name, out, {})

\* findbypid: the conversion of pid to the unsigned Pid panics below zero;
\* Process::new fails for a pid that is not in the table
findbypid(pid, n, ok) ==
    IF pid < 0 THEN [panic |-> TRUE, found |-> FALSE]
    ELSE [panic |-> FALSE, found |-> ok /\ pid >= 1 /\ pid <= n]

networkuti(out) ==
    out \o [i \in 1..Len(Networks) |->
              Line("Interface {}: transmitted: {}, received: {}",
                   <<i, Networks[i].tx, Networks[i].rx>>)]

memutil(out) ==
    out \o << Line("Total Memory: {}", <<>>), Line("Used Memory: {}", <<>>),
              Line("Free Memory: {}", <<>>) >>

RECURSIVE desc_loop(_, _)
desc_loop(procs, out) ==
    IF procs = <<>> THEN out
    ELSE IF has_cmdline(Head(procs))
         THEN desc_loop(Tail(procs), Append(out, ProcRow(Head(procs))))
         ELSE desc_loop(Tail(procs), out)

desc(out, n, ok) ==
    IF ~ok THEN [panic |-> TRUE, lines |-> out]
    ELSE [panic |-> FALSE,
          lines |-> desc_loop(reverse(processes(n)),
                              Append(Append(out, TableHeader), TableHeader))]

-----------------------------------------------------------------------------
(* The command table: the string patterns of the match on parts[0] *)

Cmd_uname == <<"u", "n", "a", "m", "e">>

Cmd_release == <<"r", "e", "l", "e", "a", "s", "e">>

Cmd_hostname == <<"h", "o", "s", "t", "n", "a", "m", "e">>

Cmd_sysinfo == <<"s", "y", "s", "i", "n", "f", "o">>

Cmd_sensors == <<"s", "e", "n", "s", "o", "r", "s">>

Cmd_df == <<"d", "f">>

Cmd_hddtemp == <<"h", "d", "d", "t", "e", "m", "p">>

Cmd_lscpu == <<"l", "s", "c", "p", "u">>

Cmd_gputemp == <<"g", "p", "u", "t", "e", "m", "p">>

Cmd_kill == <<"k", "i", "l", "l">>

Cmd_ignite == <<"i", "g", "n", "i", "t", "e">>

Cmd_ptable == <<"p", "t", "a", "b", "l", "e">>

Cmd_clear == <<"c", "l", "e", "a", "r">>

Cmd_help == <<"h", "e", "l", "p">>

Cmd_find == <<"f", "i", "n", "d">>

Cmd_network == <<"n", "e", "t", "w", "o", "r", "k">>

Cmd_memory == <<"m", "e", "m", "o", "r", "y">>

Cmd_desc == <<"d", "e", "s", "c">>

-----------------------------------------------------------------------------
(* Dispatch: lines 117-240 of the Enter arm, after app.output.clear()       *)

\* the start of the match without app.output.clear()
Cleared_keeps_output ==
    [output |-> output, flag |-> flag, num |-> num, arg |-> arg, session |-> "running",
     signals |-> signals, spawned |-> spawned]

\* app.output.clear() (line 118): the state the match starts from
Cleared ==
    [output |-> <<>>, flag |-> flag, num |-> num, arg |-> arg, session |-> "running",
     signals |-> signals, spawned |-> spawned]

\* the arms that begin with `flag = false'
FlagOff == [Cleared EXCEPT !.flag = FALSE]

Panicked(r) == [r EXCEPT !.session = "panic"]

\* app.output after a handler that may have panicked half way
Pushed(r, h) ==
    IF h.panic THEN Panicked([r EXCEPT !.output = h.lines]) ELSE [r EXCEPT !.output = h.lines]

\* the selector df, hddtemp and gputemp use: taken from the line when it has
\* exactly two tokens, otherwise whatever arg still holds
selector(ps) == IF Len(ps) = 2 THEN skip_first(ps[2]) ELSE arg

\* app.output.push(line)
push(r, line) == [r EXCEPT !.output = Append(r.output, line)]

\* kill acting on its second token whatever the number of tokens
kill_arm_any_count(ps, ok, n) ==
    IF Len(ps) >= 2
    THEN LET parsed == parse_i32(ps[2])
             h == IF parsed.ok THEN kill_by_pid(FlagOff.output, parsed.val, n, ok)
                  ELSE kill_by_name(FlagOff.output, ps[2], n, ok)
         IN  Pushed([FlagOff EXCEPT !.signals = signals \cup h.killed], h)
    ELSE FlagOff

kill_arm(ps, ok, n) ==
    IF Len(ps) = 2
    THEN LET parsed == parse_i32(ps[2])
             h == IF parsed.ok THEN kill_by_pid(FlagOff.output, parsed.val, n, ok)
                  ELSE kill_by_name(FlagOff.output, ps[2], n, ok)
         IN  Pushed([FlagOff EXCEPT !.signals = signals \cup h.killed], h)
    ELSE FlagOff

ignite_arm(ps, ok) ==
    IF Len(ps) = 2
    THEN IF ok THEN [FlagOff EXCEPT !.spawned = spawned \cup {ps[2]}]
         ELSE [FlagOff EXCEPT !.session = "io_error"]
    ELSE FlagOff

ptable_arm(ok, n) ==
    LET h == printptable(Cleared.output, n, ok)
    IN  IF h.panic THEN Pushed(Cleared, h)
        ELSE [Cleared EXCEPT !.output = h.lines, !.num = h.num, !.flag = TRUE]

find_arm(ps, ok, n) ==
    IF Len(ps) = 2
    THEN LET parsed == parse_i32(ps[2])
             pid == parsed.val
             f == findbypid(pid, n, ok)
         IN  IF ~parsed.ok \/ f.panic THEN Panicked(Cleared)
             ELSE IF f.found
                  THEN LET named == push(push(Cleared,
                                       Line("Process with PID {} found!: {:?}", <<pid>>)),
                                       TableHeader)
                       IN  IF has_cmdline(pid)
                           THEN push(named,
                                     Line("{:<30} {:<30} {:<30} {:<30} cmdline", <<pid>>))
                           ELSE named
                  ELSE push(Cleared, Line("Process not found with PID {}", <<pid>>))
    ELSE Cleared

dispatch(ps, ok, n) ==
    IF ps = <<>> THEN Panicked(Cleared)
    ELSE LET cmd == ps[1]
         IN  CASE cmd = Cmd_uname ->
                    IF ok THEN push(FlagOff, Line("{} kernel_version", <<>>))
                    ELSE Panicked(FlagOff)
               [] cmd = Cmd_release ->
                    IF ok THEN push(FlagOff, Line("{} os_version", <<>>))
                    ELSE Panicked(FlagOff)
               [] cmd = Cmd_hostname ->
                    IF ok THEN push(FlagOff, Line("{} host_name", <<>>))
                    ELSE Panicked(FlagOff)
               [] cmd = Cmd_sysinfo ->
                    LET h == get_system_information(ok)
                    IN  IF h.panic THEN Panicked(FlagOff) ELSE [FlagOff EXCEPT !.output = h.lines]
               [] cmd = Cmd_sensors ->
                    [FlagOff EXCEPT !.output = get_components_information]
               [] cmd = Cmd_df ->
                    [FlagOff EXCEPT !.arg = selector(ps),
                                    !.output = get_disks_information(selector(ps))]
               [] cmd = Cmd_hddtemp ->
                    LET h == get_hddtemp(selector(ps), ok)
                    IN  IF h.panic THEN Panicked([FlagOff EXCEPT !.arg = selector(ps)])
                        ELSE [FlagOff EXCEPT !.arg = selector(ps), !.output = h.lines]
               [] cmd = Cmd_lscpu -> [FlagOff EXCEPT !.output = get_cpu_information]
               [] cmd = Cmd_gputemp ->
                    [FlagOff EXCEPT !.arg = selector(ps), !.output = get_gputemp(selector(ps))]
               [] cmd = Cmd_kill -> kill_arm(ps, ok, n)
               [] cmd = Cmd_ignite -> ignite_arm(ps, ok)
               [] cmd = Cmd_ptable -> ptable_arm(ok, n)
               [] cmd = Cmd_clear -> [FlagOff EXCEPT !.output = <<>>]
               [] cmd = Cmd_help -> [Cleared EXCEPT !.output = Cleared.output \o HelpText]
               [] cmd = Cmd_find -> find_arm(ps, ok, n)
               [] cmd = Cmd_network -> [Cleared EXCEPT !.output = networkuti(Cleared.output)]
               [] cmd = Cmd_memory -> [Cleared EXCEPT !.output = memutil(Cleared.output)]
               [] cmd = Cmd_desc -> Pushed(Cleared, desc(Cleared.output, n, ok))
               [] OTHER -> push(Cleared, NotFoundLine)

\* the names the match on parts[0] knows
CommandTable ==
    { Cmd_uname, Cmd_release, Cmd_hostname, Cmd_sysinfo, Cmd_sensors, Cmd_df,
      Cmd_hddtemp, Cmd_lscpu, Cmd_gputemp, Cmd_kill, Cmd_ignite, Cmd_ptable,
      Cmd_clear, Cmd_help, Cmd_find, Cmd_network, Cmd_memory, Cmd_desc }

\* Does the dispatch of these tokens ask the OS for the process table?
observes_processes(ps) ==
    /\ ps # <<>>
    /\ \/ ps[1] \in {Cmd_ptable, Cmd_desc}
       \/ ps[1] = Cmd_kill /\ Len(ps) = 2
       \/ ps[1] = Cmd_find /\ Len(ps) = 2 /\ parse_i32(ps[2]).ok /\ parse_i32(ps[2]).val >= 0

\* Does the dispatch of these tokens make an OS call that can fail?
fallible(ps) ==
    /\ ps # <<>>
    /\ \/ ps[1] \in {Cmd_uname, Cmd_release, Cmd_hostname, Cmd_sysinfo}
       \/ observes_processes(ps)
       \/ ps[1] = Cmd_ignite /\ Len(ps) = 2
       \/ ps[1] = Cmd_hddtemp /\ selector(ps) = Crit_

-----------------------------------------------------------------------------
(* The operator at the keyboard *)

\* The lines the operator composes, character by character.
UserLines ==
    { <<>>,
      <<" ">>,
      <<"p", "t", "a", "b", "l", "e">>,
      <<"d", "e", "s", "c">>,
      <<"h", "e", "l", "p">>,
      <<"z", "z">>,
      <<"u", "n", "a", "m", "e">>,
      <<"i", "g", "n", "i", "t", "e", " ", "p">>,
      <<"f", "i", "n", "d">>,
      <<"f", "i", "n", "d", " ", "x">>,
      <<"f", "i", "n", "d", " ", "-", "1">>,
      <<"f", "i", "n", "d", " ", "1">>,
      <<"m", "e", "m", "o", "r", "y">>,
      <<"k", "i", "l", "l">>,
      <<"k", "i", "l", "l", " ", "9">>,
      <<"k", "i", "l", "l", " ", "9", " ", "9">>,
      <<"k", "i", "l", "l", " ", "z">>,
      <<"k", "i", "l", "l", " ", "s">>,
      <<"i", "g", "n", "i", "t", "e">>,
      <<"d", "f">>,
      <<"d", "f", " ", "m">>,
      <<"d", "f", " ", "k">>,
      <<"d", "f", " ", "-", "m">>,
      <<"d", "f", " ", "-", "k">>,
      <<"h", "d", "d", "t", "e", "m", "p">>,
      <<"g", "p", "u", "t", "e", "m", "p">> }

\* The lines after which the operator goes on to compose another one.
SetupLines == { Cmd_ptable, <<"d", "f", " ", "-", "k">> }

Alphabet == UNION { { l[i] : i \in 1..Len(l) } : l \in UserLines }

MayCompose ==
    /\ Len(messages) < MaxMessages
    /\ \A i \in 1..Len(messages) : messages[i] \in SetupLines

MayType(c) == MayCompose /\ \E l \in UserLines : IsPrefix(Append(input, c), l)

MaySubmit == MayCompose /\ input \in UserLines

\* erasures are explored in the line composed first
MayErase == erased < MaxErase /\ messages = <<>>

-----------------------------------------------------------------------------
(* Paging: the Down and Up arms *)

\* the first line of the vector removed instead of the second
remove_0(v) ==
    IF Len(v) < 1 THEN [panic |-> TRUE, vec |-> v, item |-> v]
    ELSE [panic |-> FALSE, vec |-> Tail(v), item |-> <<v[1]>>]

\* Vec::remove(1): panics when the index is out of range
remove_1(v) ==
    IF Len(v) < 2 THEN [panic |-> TRUE, vec |-> v, item |-> v]
    ELSE [panic |-> FALSE, vec |-> <<v[1]>> \o SubSeq(v, 3, Len(v)), item |-> <<v[2]>>]

\* the line put back at the end of the vector (a push) instead of position 1
insert_push(v, x) ==
    IF Len(v) < 1 THEN [panic |-> TRUE, vec |-> v]
    ELSE [panic |-> FALSE, vec |-> Append(v, x)]

\* Vec::insert(1, x): panics when the vector is empty
insert_1(v, x) ==
    IF Len(v) < 1 THEN [panic |-> TRUE, vec |-> v]
    ELSE [panic |-> FALSE, vec |-> <<v[1], x>> \o Tail(v)]

\* (num-45).try_into().unwrap() to usize: Err below zero
to_usize(i) == IF i < 0 THEN [ok |-> FALSE, val |-> 0] ELSE [ok |-> TRUE, val |-> i]

Same == [output |-> output, history |-> history, session |-> "running"]

page_down ==
    IF flag /\ output # <<>>
    THEN LET limit == to_usize(num - ScrollMargin)
         IN  IF ~limit.ok THEN [Same EXCEPT !.session = "panic"]
             ELSE IF Len(history) <= limit.val
                  THEN LET r == remove_1(output)
                       IN  IF r.panic THEN [Same EXCEPT !.session = "panic"]
                           ELSE [Same EXCEPT !.output = r.vec,
                                             !.history = history \o r.item]
                  ELSE Same
    ELSE Same

\* Up without the test of flag
page_up_unguarded ==
    IF history # <<>>
    THEN LET r == insert_1(output, Last(history))
         IN  IF r.panic THEN [Same EXCEPT !.history = Front(history), !.session = "panic"]
             ELSE [Same EXCEPT !.output = r.vec, !.history = Front(history)]
    ELSE Same

page_up ==
    IF flag /\ history # <<>>
    THEN LET r == insert_1(output, Last(history))
         IN  IF r.panic THEN [Same EXCEPT !.history = Front(history), !.session = "panic"]
             ELSE [Same EXCEPT !.output = r.vec, !.history = Front(history)]
    ELSE Same

-----------------------------------------------------------------------------
(* The session loop: one action per key event *)

Init ==
    /\ input = <<>>
    /\ input_mode = "Normal"
    /\ messages = <<>>
    /\ output = <<>>
    /\ flag = FALSE
    /\ num = 0
    /\ arg = <<>>
    /\ parts = <<>>
    /\ history = <<>>
    /\ session = "running"
    /\ nprocs = 0
    /\ facade_ok = TRUE
    /\ signals = {}
    /\ spawned = {}
    /\ typed = 0
    /\ erased = 0
    /\ voided = 0
    /\ before_down = <<>>
    /\ solo = [k \in UserLines \X BOOLEAN \X ProcCounts |->
                  dispatch(split_whitespace(k[1]), k[2], k[3]).output]

Awaiting(mode) == session = "running" /\ input_mode = mode

\* Normal, 'e' | 'E'
NormalEdit ==
    /\ UNCHANGED solo
    /\ Awaiting("Normal")
    /\ before_down' = <<>>
    /\ input_mode' = "Editing"
    /\ UNCHANGED <<input, messages, output, flag, num, arg, parts, history, session,
                   nprocs, facade_ok, signals, spawned, typed, erased, voided>>

\* Normal, 'q' | 'Q'
NormalQuit ==
    /\ UNCHANGED solo
    /\ Awaiting("Normal")
    /\ before_down' = <<>>
    /\ session' = "quit"
    /\ UNCHANGED <<input, input_mode, messages, output, flag, num, arg, parts, history,
                   nprocs, facade_ok, signals, spawned, typed, erased, voided>>

\* Normal mode taking a character key as text
NormalOther_types ==
    /\ UNCHANGED solo
    /\ Awaiting("Normal")
    /\ \E c \in Alphabet :
          /\ MayType(c)
          /\ input' = Append(input, c)
    /\ UNCHANGED <<input_mode, messages, output, flag, num, arg, parts, history, session,
                   nprocs, facade_ok, signals, spawned, typed, erased, voided,
                   before_down>>

\* Normal, any other key
NormalOther ==
    /\ Awaiting("Normal")
    /\ UNCHANGED vars

EditDown ==
    /\ UNCHANGED solo
    /\ Awaiting("Editing")
    /\ before_down' = IF page_down.session = "running" /\ page_down.history # history
                      THEN <<output, history>> ELSE <<>>
    /\ output' = page_down.output
    /\ history' = page_down.history
    /\ session' = page_down.session
    /\ UNCHANGED <<input, input_mode, messages, flag, num, arg, parts,
                   nprocs, facade_ok, signals, spawned, typed, erased, voided>>

EditUp ==
    /\ UNCHANGED solo
    /\ Awaiting("Editing")
    /\ before_down' = <<>>
    /\ output' = page_up.output
    /\ history' = page_up.history
    /\ session' = page_up.session
    /\ UNCHANGED <<input, input_mode, messages, flag, num, arg, parts,
                   nprocs, facade_ok, signals, spawned, typed, erased, voided>>

\* a drain that copies the text out and leaves it in place
drain_keeps(s) == [taken |-> s, rest |-> s]

\* String::drain(..).collect(): the whole text is taken out, none is left
drain(s) == [taken |-> s, rest |-> <<>>]

EditEnter ==
    /\ UNCHANGED solo
    /\ Awaiting("Editing")
    /\ before_down' = <<>>
    /\ MaySubmit
    /\ LET ps == split_whitespace(input)
       IN  \E ok \in (IF fallible(ps) THEN BOOLEAN ELSE {TRUE}),
              n \in (IF observes_processes(ps) THEN ProcCounts ELSE {nprocs}) :
             LET r == dispatch(ps, ok, n)
             IN  /\ parts' = ps
                 /\ messages' = Append(messages, drain(input).taken)
                 /\ input' = drain(input).rest
                 /\ output' = r.output
                 /\ flag' = r.flag
                 /\ num' = r.num
                 /\ arg' = r.arg
                 /\ session' = r.session
                 /\ signals' = r.signals
                 /\ spawned' = r.spawned
                 /\ nprocs' = n
                 /\ facade_ok' = ok
    /\ typed' = 0
    /\ erased' = 0
    /\ voided' = 0
    /\ UNCHANGED <<input_mode, history>>

EditChar ==
    /\ UNCHANGED solo
    /\ Awaiting("Editing")
    /\ before_down' = <<>>
    /\ \E c \in Alphabet :
          /\ MayType(c)
          /\ input' = Append(input, c)
    /\ typed' = typed + 1
    /\ UNCHANGED <<input_mode, messages, output, flag, num, arg, parts, history, session,
                   nprocs, facade_ok, signals, spawned, erased, voided>>

\* a Backspace that empties the input
pop_clears(s) == <<>>

\* String::pop: removes the last character, None on an empty string
pop(s) == IF s = <<>> THEN s ELSE Front(s)

EditBackspace ==
    /\ UNCHANGED solo
    /\ Awaiting("Editing")
    /\ before_down' = <<>>
    /\ MayErase
    /\ input' = pop(input)
    /\ erased' = erased + 1
    /\ voided' = IF input = <<>> THEN voided + 1 ELSE voided
    /\ UNCHANGED <<input_mode, messages, output, flag, num, arg, parts, history, session,
                   nprocs, facade_ok, signals, spawned, typed>>

EditEsc ==
    /\ UNCHANGED solo
    /\ Awaiting("Editing")
    /\ before_down' = <<>>
    /\ input_mode' = "Normal"
    /\ UNCHANGED <<input, messages, output, flag, num, arg, parts, history, session,
                   nprocs, facade_ok, signals, spawned, typed, erased, voided>>

\* Editing, any other key
EditOther ==
    /\ UNCHANGED solo
    /\ Awaiting("Editing")
    /\ before_down' = <<>>
    /\ UNCHANGED <<input, input_mode, messages, output, flag, num, arg, parts, history,
                   session, nprocs, facade_ok, signals, spawned, typed, erased, voided>>

Next ==
    \/ NormalEdit
    \/ NormalQuit
    \/ NormalOther
    \/ EditDown
    \/ EditUp
    \/ EditEnter
    \/ EditChar
    \/ EditBackspace
    \/ EditEsc
    \/ EditOther

Spec == Init /\ [][Next]_vars

-----------------------------------------------------------------------------
(* Properties *)

Running == session = "running"

\* an Enter step whose line has a first token
Dispatched == EditEnter /\ parts' # <<>>

\* the processes of the table the OS showed that have a command line
DataPids(n) == { p \in 1..n : has_cmdline(p) }

\* C1: whenever paging is enabled, the lines of output below the header and
\* the lines of history together are the num rows of the last ptable.
C1_RowsConserved ==
    (Running /\ flag) => (Len(output) - 1) + Len(history) = num

\* C2: Enter on an empty or all-whitespace input keeps the session running
\* and leaves output empty.
C2_EmptyLineIsNoOp ==
    [][(EditEnter /\ \A i \in 1..Len(input) : is_whitespace(input[i]))
          => (session' = "running" /\ output' = <<>>)]_vars

\* C3: after the dispatch of any command other than ptable, paging is off.
C3_OnlyPtablePages ==
    [][(Dispatched /\ parts'[1] # Cmd_ptable) => flag' = FALSE]_vars

\* C4: while the OS calls succeed, the session ends only by q / Q in Normal
\* mode; no other key and no submitted line ends it.
C4_EndsOnlyOnQuit ==
    [][(session = "running" /\ session' # "running" /\ facade_ok')
          => (input_mode = "Normal" /\ session' = "quit")]_vars

\* C5: a dispatch whose OS call fails ends with one error line in output and
\* the session still running in Editing mode.
C5_FacadeFailureIsReported ==
    [][(EditEnter /\ ~facade_ok')
          => (session' = "running" /\ input_mode' = "Editing" /\ Len(output') = 1)]_vars

\* C6: with paging enabled, Down pressed while more than num - 45 lines are
\* in history changes neither output nor history and the session goes on.
C6_DownBeyondLimitIsNoOp ==
    [][(EditDown /\ flag /\ Len(history) > num - ScrollMargin)
          => (output' = output /\ history' = history /\ session' = "running")]_vars

\* C7: a ptable dispatch over a table with K processes that have a command
\* line enables paging, sets num to K and makes output the header followed by
\* one row per such process, in enumeration order.
C7_PtableResult ==
    [][(Dispatched /\ parts'[1] = Cmd_ptable /\ session' = "running")
          => LET K == Cardinality(DataPids(nprocs'))
             IN  /\ flag'
                 /\ num' = K
                 /\ Len(output') = K + 1
                 /\ output'[1] = TableHeader
                 /\ \A i \in 2..Len(output') :
                       /\ output'[i].vals # <<>>
                       /\ output'[i] = ProcRow(output'[i].vals[1])
                       /\ output'[i].vals[1] \in DataPids(nprocs')
                       /\ i > 2 => output'[i - 1].vals[1] < output'[i].vals[1]]_vars

C7_Witness ==
    /\ Running /\ flag /\ parts = <<Cmd_ptable>> /\ history = <<>>
    /\ num > ScrollMargin /\ num < nprocs /\ Len(output) = num + 1

\* C8: a line whose first token is no command leaves exactly the not-found
\* line in output, whatever output held, and adds one entry to messages.
C8_UnknownCommand ==
    [][(Dispatched /\ parts'[1] \notin CommandTable)
          => /\ output' = <<NotFoundLine>>
             /\ Len(messages') = Len(messages) + 1
             /\ session' = "running"]_vars

C8_Witness ==
    /\ Running /\ Len(messages) = 2 /\ messages[1] = Cmd_ptable
    /\ parts # <<>> /\ parts[1] \notin CommandTable
    /\ output = <<NotFoundLine>>

\* C9, as stated: after N character keys and M <= N Backspace keys in any
\* order the input has N - M characters.
C9_LengthIsNetCount ==
    (Running /\ erased <= typed) => Len(input) = typed - erased

\* C9, amended: the input has N - M characters plus one for every Backspace
\* that found it empty; N - M exactly when no Backspace did.
C9_LengthCountsVoided ==
    Running => /\ Len(input) = typed - erased + voided
               /\ voided = 0 => Len(input) = typed - erased

C9_Witness ==
    Running /\ typed = 3 /\ erased = 2 /\ voided = 0 /\ Len(input) = 1

\* C10: find with a token that is no integer, or a negative one, puts one
\* line in output and the session goes on.
C10_MalformedPidIsReported ==
    [][(Dispatched /\ parts'[1] = Cmd_find /\ Len(parts') = 2
          /\ (~parse_i32(parts'[2]).ok \/ parse_i32(parts'[2]).val < 0))
          => (Len(output') = 1 /\ session' = "running")]_vars

\* C11: kill of a pid that is not in the process table puts the error line in
\* output and the session goes on; kill of a name that no process has sends
\* no signal and puts no line in output.
C11_KillMiss ==
    [][(Dispatched /\ parts'[1] = Cmd_kill /\ Len(parts') = 2)
          => LET tok == parts'[2]
                 pid == parse_i32(tok)
             IN  /\ (pid.ok /\ pid.val >= 1 /\ pid.val > nprocs')
                       => /\ output' = <<KillErrorLine>>
                          /\ signals' = signals
                          /\ session' = "running"
                 /\ (~pid.ok /\ facade_ok' /\ \A q \in DataPids(nprocs') : ProcName(q) # tok)
                       => /\ output' = <<>>
                          /\ signals' = signals
                          /\ session' = "running"]_vars

C11_Witness ==
    /\ Running /\ parts = <<Cmd_kill, <<"9">>>> /\ nprocs < 9
    /\ output = <<KillErrorLine>> /\ signals = {}

\* what df shows when every space figure is divided by unit: the header and,
\* per disk, total, available and their difference
DiskReport(unit) ==
    <<DiskHeader>>
      \o [i \in 1..Len(Disks) |->
            Line("{:<50} x6", << Disks[i].total \div unit, Disks[i].avail \div unit,
                                (Disks[i].total \div unit) - (Disks[i].avail \div unit) >>)]

\* C12: df with no argument shows byte counts, whatever was submitted before.
C12_BareDfIsBytes ==
    [][(Dispatched /\ parts' = <<Cmd_df>>) => output' = DiskReport(1)]_vars

\* C13, as stated: the line `df m' divides by 2^20 and the line `df k' by 2^10.
C13_LetterScales ==
    [][Dispatched
          => /\ parts' = <<Cmd_df, M_>> => output' = DiskReport(2^20)
             /\ parts' = <<Cmd_df, K_>> => output' = DiskReport(2^10)]_vars

\* C13, amended: the first character of the argument is dropped and the rest
\* selects the unit: `df -m' divides by 2^20, `df -k' by 2^10, and the
\* one-letter arguments of `df m' and `df k' leave byte counts.
C13_SuffixScales ==
    [][(Dispatched /\ parts'[1] = Cmd_df /\ Len(parts') = 2)
          => /\ Tail(parts'[2]) = M_ => output' = DiskReport(2^20)
             /\ Tail(parts'[2]) = K_ => output' = DiskReport(2^10)
             /\ parts'[2] \in {M_, K_} => output' = DiskReport(1)]_vars

C13_Witness ==
    /\ Running /\ Len(messages) = 2
    /\ parts = <<Cmd_df, <<"-", "m">>>> /\ arg = M_
    /\ output = DiskReport(2^20) /\ output # DiskReport(1)

\* C14: when Down has moved a line, Up pressed as the very next key makes
\* output and history what they were before that Down.
C14_DownThenUpRestores ==
    [][(EditUp /\ before_down # <<>>)
          => /\ output' = before_down[1]
             /\ history' = before_down[2]
             /\ session' = "running"]_vars

\* the scenario of 50 rows: Down has just moved r1 from output to history
C14_Witness ==
    /\ Running /\ before_down # <<>> /\ num = 50
    /\ Len(before_down[1]) = 51 /\ before_down[2] = <<>>
    /\ history = <<ProcRow(1)>> /\ Len(output) = 50 /\ output[2] = ProcRow(3)

\* the line h, e, l, p was typed and Enter pressed
HelpSubmitted == EditEnter /\ input = Cmd_help

\* C15, as stated: h, e, l, p, Enter leaves the help text of 16 lines in
\* output and "help" in messages.
C15_HelpHas16Lines ==
    [][HelpSubmitted
          => /\ output' = HelpText
             /\ Len(output') = 16
             /\ \E i \in 1..Len(messages') : messages'[i] = Cmd_help]_vars

\* C15, amended: the help text left in output has 19 lines: the title and 18
\* command lines, those of uname and release twice each.
C15_HelpHas19Lines ==
    [][HelpSubmitted
          => /\ output' = HelpText
             /\ Len(output') = 19
             /\ output'[1] = H("COMMANDS .")
             /\ output'[8] = output'[9] /\ output'[10] = output'[11]
             /\ Cardinality({ output'[i] : i \in 1..Len(output') }) = 17
             /\ \E i \in 1..Len(messages') : messages'[i] = Cmd_help
             /\ session' = "running"]_vars

C15_Witness ==
    /\ Running /\ parts = <<Cmd_help>> /\ Last(messages) = Cmd_help
    /\ Len(messages) = 2 /\ Len(output) = 19

\* C16: messages only ever grows, by Enter in Editing mode, which appends the
\* text input holds as the last entry, keeps the earlier entries and leaves
\* input empty.
C16_MessagesAppendOnly ==
    [][/\ EditEnter => (messages' # messages /\ input' = <<>>)
       /\ messages' # messages
            => /\ EditEnter
               /\ input_mode = "Editing"
               /\ Len(messages') = Len(messages) + 1
               /\ SubSeq(messages', 1, Len(messages)) = messages
               /\ Last(messages') = input
               /\ input' = <<>>]_vars

C16_Witness ==
    /\ Running /\ Len(messages) = 2 /\ messages[1] = Cmd_ptable
    /\ messages[2] = <<"d", "f", " ", "-", "m">> /\ input = <<>>

\* C17: a key in Normal mode changes none of input, messages, output,
\* history, flag and num; the mode changes only by e / E, to Editing, with the
\* session still running; nothing else changes but by q / Q ending the session.
C17_NormalModeFrame ==
    [][input_mode = "Normal"
          => /\ UNCHANGED <<input, messages, output, history, flag, num>>
             /\ input_mode' # input_mode
                  => (NormalEdit /\ input_mode' = "Editing" /\ session' = session)
             /\ input_mode' = input_mode
                  => (NormalQuit /\ session' = "quit")]_vars

C17_Witness ==
    /\ Running /\ input_mode = "Normal"
    /\ input # <<>> /\ messages # <<>> /\ flag /\ history # <<>> /\ Len(output) > 1

\* the table as paging sees it: the first line of output, the lines paged
\* out, then the rest of output
Unrolled(out, hist) == IF out = <<>> THEN hist ELSE <<out[1]>> \o hist \o Tail(out)

C19_HistoryFrame ==
    [][/\ history' # history
            => (input_mode = "Editing" /\ flag /\ (EditUp \/ EditDown))
       /\ ((EditUp \/ EditDown) /\ ~flag)
            => (output' = output /\ history' = history /\ session' = "running")
       /\ EditEnter => history' = history]_vars

\* lines paged out of a table are still in history after a later dispatch
\* that disabled paging
C19_Witness ==
    /\ Running /\ input_mode = "Editing" /\ ~flag
    /\ Len(history) = 2 /\ history[1] = ProcRow(1)
    /\ Len(messages) = 2 /\ messages[1] = Cmd_ptable /\ output # <<>>

\* C20: a line whose command is kill or ignite and whose number of tokens
\* is not 2 sends no signal, spawns nothing, leaves output empty and keeps
\* the session going.
C20_ArgCountMismatchIsNoOp ==
    [][(Dispatched /\ parts'[1] \in {Cmd_kill, Cmd_ignite} /\ Len(parts') # 2)
          => /\ signals' = signals
             /\ spawned' = spawned
             /\ output' = <<>>
             /\ session' = "running"]_vars

\* kill with two arguments was dispatched over a table that holds the
\* process its first argument names
C20_Witness ==
    /\ Running /\ Len(parts) = 3 /\ parts[1] = Cmd_kill
    /\ parse_i32(parts[2]).ok /\ parse_i32(parts[2]).val \in DataPids(nprocs)
    /\ messages # <<>> /\ input = <<>> /\ output = <<>> /\ signals = {}

\* the lines ptable would show for a table of n processes
PtableLines(n) == printptable(<<>>, n, TRUE).lines

\* C21: a desc dispatch leaves in output what ptable would show for the same
\* enumeration with the data rows reversed: the header once, at position 0,
\* then one row per process that has a command line, in reverse order.
C21_DescIsPtableReversed ==
    [][(Dispatched /\ parts'[1] = Cmd_desc /\ session' = "running")
          => output' = <<TableHeader>> \o reverse(Tail(PtableLines(nprocs')))]_vars

\* a Down key pressed now would reach output.remove(1)
DownEvicts ==
    /\ flag /\ output # <<>>
    /\ to_usize(num - ScrollMargin).ok
    /\ Len(history) <= to_usize(num - ScrollMargin).val

\* an Up key pressed now would reach output.insert(1, ..)
UpReinserts == flag /\ history # <<>>

\* C22: in every reachable state the positions paging uses are valid: Down
\* evicts position 1 only from an output of at least 2 lines and Up reinserts
\* at position 1 only into an output of at least 1 line.
C22_PagingPositionsValid ==
    Running => /\ DownEvicts => Len(output) >= 2
               /\ UpReinserts => Len(output) >= 1

\* the line submitted last
LastLine == messages[Len(messages)]

\* C23: the output of a dispatch is determined by the line and by what the
\* OS answers: it is the output the same line gets, for the same answers, in
\* a session that has submitted nothing before.
C23_OutputFromLineAlone ==
    [][(Dispatched /\ session' = "running")
          => output' = solo[<<LastLine', facade_ok', nprocs'>>]]_vars

====
